---- MODULE Spec2Model ----
(***************************************************************************)
(* Model of the two scripts of the repository:                             *)
(*   compare_csv.py  reads two CSV snapshots, diffs them by product code   *)
(*                   and optionally replays the CHANGED entries against    *)
(*                   the remote API (search by name, then update);         *)
(*   add.py          imports the rows of a workbook with a two-step        *)
(*                   create (POST) / update (PUT) protocol.                *)
(*                                                                         *)
(* Text is modelled as a sequence of one-character strings, so that        *)
(* str.strip() and str.lower() are computed as the code computes them.     *)
(* Vietnamese column names and labels are written without diacritics:      *)
(*   "Ma" = 'Mã', "Ten SP" = 'Tên SP', "Gia ban" = 'Giá bán',               *)
(*   "Ton HN" = 'Tồn HN', "Ton SG" = 'Tồn SG', "MOI" = 'MỚI',               *)
(*   "DA XOA" = 'ĐÃ XÓA', "THAY DOI" = 'THAY ĐỔI', "Gia" = 'Giá'.           *)
(***************************************************************************)
EXTENDS Integers, Sequences, FiniteSets, TLC

VARIABLES
    script,          \* which script runs: "compare_csv" or "add"
    pc,              \* position of the running script
    update_via_api,  \* compare_csv.main: --update-api was given
    output_path,     \* compare_csv.main: an output file was named
    fieldnames,      \* header of the CSV file being read (csv.DictReader)
    nrows,           \* rows the reader has delivered from the file being read
    products1,       \* compare_products: baseline snapshot, an ordered dict
    products2,       \* compare_products: current snapshot, an ordered dict
    differences,     \* the list of Difference Entries
    reported,        \* print_results has run
    exported,        \* export_to_csv has written the output file
    api_key,         \* the credential entered at the prompt (stripped)
    confirmed,       \* history: the confirmation was answered and the answer confirms
    changed_products,\* process_api_updates: indexes (into differences) of the CHANGED entries
    idx,             \* process_api_updates: enumerate() position in changed_products
    response,        \* the HTTP response of the call in flight
    product_id,      \* the identifier resolved for the current entry / row
    success_count,   \* process_api_updates: tally of successes
    failed_count,    \* process_api_updates: tally of failures
    sheet,           \* add.main: the rows of the sheet being imported
    row_i,           \* add.main: iterrows() position
    payload,         \* update_product_api: the payload of the last update call issued
    log              \* history of remote calls and sleeps, in order

vars == <<script, pc, update_via_api, output_path, fieldnames, nrows, products1,
          products2, differences, reported, exported, api_key, changed_products,
          idx, response, product_id, success_count, failed_count, sheet, row_i,
          payload, confirmed, log>>

(***************************************************************************)
(* Bounds of the model.                                                    *)
(***************************************************************************)
\* rows a CSV file may hold
MaxRows == 2
\* items a search response may list
MaxItems == 2
\* rows the imported sheet may hold
MaxSheetRows == 2

(***************************************************************************)
(* Text helpers.                                                           *)
(***************************************************************************)
\* Python's None, as a cell value, a name or a response field
None == <<"None">>

\* the empty string
Empty == <<>>

RECURSIVE lstrip(_)
lstrip(s) == IF s # <<>> /\ Head(s) = " " THEN lstrip(Tail(s)) ELSE s

RECURSIVE rstrip(_)
rstrip(s) == IF s # <<>> /\ s[Len(s)] = " " THEN rstrip(SubSeq(s, 1, Len(s) - 1)) ELSE s

\* str.strip(): leading and trailing whitespace removed
strip(s) == rstrip(lstrip(s))

\* one character of str.lower()
lowerChar(c) ==
    CASE c = "N" -> "n"
      [] c = "A" -> "a"
      [] c = "Y" -> "y"
      [] c = "E" -> "e"
      [] c = "S" -> "s"
      [] OTHER -> c

\* str.lower()
lower(s) == [i \in 1..Len(s) |-> lowerChar(s[i])]

\* Python truthiness of a text-or-None value: None and '' are falsy
Truthy(v) == v # None /\ v # Empty

(***************************************************************************)
(* Dictionaries.                                                           *)
(***************************************************************************)
\* dict.get(key): None when the key is absent
Get(d, k) == IF k \in DOMAIN d THEN d[k] ELSE None

\* dict.get(key, default): the default only when the key is absent
GetD(d, k, default) == IF k \in DOMAIN d THEN d[k] ELSE default

\* an insertion-ordered dict keyed by product code
EmptyDict == [keys |-> <<>>, val |-> <<>>]

\* DictSet with a list in place of the dict: every row is appended
DictSetAppend(d, k, v) == [keys |-> Append(d.keys, k), val |-> Append(d.val, v)]

\* products[product_code] = row: a new key goes last, an old key keeps its place
DictSet(d, k, v) ==
    IF \E i \in 1..Len(d.keys) : d.keys[i] = k
    THEN [keys |-> d.keys,
          val |-> [i \in 1..Len(d.keys) |-> IF d.keys[i] = k THEN v ELSE d.val[i]]]
    ELSE [keys |-> Append(d.keys, k), val |-> Append(d.val, v)]

\* code in products
HasKey(d, k) == \E i \in 1..Len(d.keys) : d.keys[i] = k

\* products[code]
Lookup(d, k) == d.val[CHOOSE i \in 1..Len(d.keys) : d.keys[i] = k]

\* the set of keys of an ordered dict
KeySet(d) == {d.keys[i] : i \in 1..Len(d.keys)}

(***************************************************************************)
(* The CSV inputs.                                                         *)
(***************************************************************************)
\* the header with every column: the code, the four designated fields and a
\* non-designated one
AllColumns == {"Ma", "Ten SP", "Gia ban", "Ton HN", "Ton SG", "Thuong Hieu"}

\* the headers a file may have: complete, or without the price column
Headers == {AllColumns, AllColumns \ {"Gia ban"}}

\* raw values of the code column: two codes, one with a leading blank, and ''
RawCodes == {<<"A">>, <<"B">>, <<" ", "A">>, Empty}

\* a row as csv.DictReader delivers it (a short row has None for its last column)
MkRow(code, name, price, hn, sg, brand) ==
    [c \in AllColumns |->
        CASE c = "Ma" -> code
          [] c = "Ten SP" -> name
          [] c = "Gia ban" -> price
          [] c = "Ton HN" -> hn
          [] c = "Ton SG" -> sg
          [] c = "Thuong Hieu" -> brand]

\* restriction of a row to the columns of the header
Restrict(row, header) == [c \in header |-> row[c]]

\* rows of the baseline file: the price is given or empty (or, by the header,
\* its column is absent)
Rows1(code) ==
    { MkRow(code, <<"W">>, p, <<"5">>, <<"3">>, <<"A","M","D">>) :
        p \in {<<"1","0","0">>, Empty} }

\* rows of the current file: as the baseline, the price empty or missing (short
\* row), each designated field changed alone or with others, the
\* non-designated one changed alone, a price with a comma next to a stock
\* that is no number, and a stock that reads "inf"
Rows2(code) ==
    { MkRow(code, <<"W">>, <<"1","0","0">>, <<"5">>, <<"3">>, <<"A","M","D">>),
      MkRow(code, <<"W">>, Empty, <<"5">>, <<"3">>, <<"A","M","D">>),
      MkRow(code, <<"W">>, None, <<"5">>, <<"3">>, <<"A","M","D">>),
      MkRow(code, <<"W">>, <<"1","5","0">>, <<"5">>, <<"3">>, <<"A","M","D">>),
      MkRow(code, <<"W">>, <<"1","0","0">>, <<"6">>, <<"3">>, <<"A","M","D">>),
      MkRow(code, <<"G">>, <<"1","0","0">>, <<"5">>, <<"4">>, <<"A","M","D">>),
      MkRow(code, <<"W">>, <<"1","0","0">>, <<"5">>, <<"3">>, <<"I","n","t","e","l">>),
      MkRow(code, <<"G">>, <<"1","5","0">>, <<"6">>, <<"4">>, <<"A","M","D">>),
      MkRow(code, <<"W">>, <<"1",",","5">>, <<"x">>, <<"3">>, <<"A","M","D">>),
      MkRow(code, <<"W">>, <<"1","0","0">>, <<"i","n","f">>, <<"3">>, <<"A","M","D">>) }

(***************************************************************************)
(* compare_products                                                        *)
(***************************************************************************)
\* a Difference Entry
Entry(code, name, old_name, status, p_old, p_new, hn_old, hn_new, sg_old, sg_new) ==
    [Ma |-> code, TenSP |-> name, TenSPcu |-> old_name, TrangThai |-> status,
     GiaCu |-> p_old, GiaMoi |-> p_new, TonHNCu |-> hn_old, TonHNMoi |-> hn_new,
     TonSGCu |-> sg_old, TonSGMoi |-> sg_new]

\* changed_fields without the test of 'Tồn SG'
changed_fields_no_sg(product1, product2) ==
    (IF Get(product1, "Gia ban") # Get(product2, "Gia ban") THEN <<"Gia">> ELSE <<>>)
    \o (IF Get(product1, "Ton HN") # Get(product2, "Ton HN") THEN <<"Ton HN">> ELSE <<>>)
    \o (IF Get(product1, "Ten SP") # Get(product2, "Ten SP") THEN <<"Ten SP">> ELSE <<>>)

\* changed_fields with the baseline read through get(key, '') and the current
\* record through get(key)
changed_fields_default(product1, product2) ==
    (IF GetD(product1, "Gia ban", Empty) # Get(product2, "Gia ban") THEN <<"Gia">> ELSE <<>>)
    \o (IF GetD(product1, "Ton HN", Empty) # Get(product2, "Ton HN") THEN <<"Ton HN">> ELSE <<>>)
    \o (IF GetD(product1, "Ton SG", Empty) # Get(product2, "Ton SG") THEN <<"Ton SG">> ELSE <<>>)
    \o (IF GetD(product1, "Ten SP", Empty) # Get(product2, "Ten SP") THEN <<"Ten SP">> ELSE <<>>)

\* changed_fields: the labels of the designated fields that differ, in the
\* order the code tests them
changed_fields(product1, product2) ==
    (IF Get(product1, "Gia ban") # Get(product2, "Gia ban") THEN <<"Gia">> ELSE <<>>)
    \o (IF Get(product1, "Ton HN") # Get(product2, "Ton HN") THEN <<"Ton HN">> ELSE <<>>)
    \o (IF Get(product1, "Ton SG") # Get(product2, "Ton SG") THEN <<"Ton SG">> ELSE <<>>)
    \o (IF Get(product1, "Ten SP") # Get(product2, "Ten SP") THEN <<"Ten SP">> ELSE <<>>)

\* the status f"THAY ĐỔI: {', '.join(changed_fields)}": the prefix, then the labels
ChangedStatus(fields) == <<"THAY DOI">> \o fields

\* d['Trạng thái'].startswith('THAY ĐỔI')
IsChanged(d) == d.TrangThai # <<>> /\ Head(d.TrangThai) = "THAY DOI"

\* the entries of the first loop, over products2.items(), from position i
RECURSIVE FirstLoop(_, _, _)
FirstLoop(p1, p2, i) ==
    IF i > Len(p2.keys) THEN <<>>
    ELSE LET code == p2.keys[i]
             product2 == p2.val[i]
         IN  (IF ~HasKey(p1, code)
              THEN << Entry(code, GetD(product2, "Ten SP", Empty), Empty, <<"MOI">>,
                            Empty, GetD(product2, "Gia ban", Empty),
                            Empty, GetD(product2, "Ton HN", Empty),
                            Empty, GetD(product2, "Ton SG", Empty)) >>
              ELSE LET product1 == Lookup(p1, code)
                       fields == changed_fields(product1, product2)
                   IN  IF fields # <<>>
                       THEN << Entry(code, GetD(product2, "Ten SP", Empty),
                                     GetD(product1, "Ten SP", Empty),
                                     ChangedStatus(fields),
                                     GetD(product1, "Gia ban", Empty),
                                     GetD(product2, "Gia ban", Empty),
                                     GetD(product1, "Ton HN", Empty),
                                     GetD(product2, "Ton HN", Empty),
                                     GetD(product1, "Ton SG", Empty),
                                     GetD(product2, "Ton SG", Empty)) >>
                       ELSE <<>>)
             \o FirstLoop(p1, p2, i + 1)

\* the entries of the second loop, over products1.items(), from position i
RECURSIVE SecondLoop(_, _, _)
SecondLoop(p1, p2, i) ==
    IF i > Len(p1.keys) THEN <<>>
    ELSE LET code == p1.keys[i]
             product1 == p1.val[i]
         IN  (IF ~HasKey(p2, code)
              THEN << Entry(code, GetD(product1, "Ten SP", Empty), Empty, <<"DA XOA">>,
                            GetD(product1, "Gia ban", Empty), Empty,
                            GetD(product1, "Ton HN", Empty), Empty,
                            GetD(product1, "Ton SG", Empty), Empty) >>
              ELSE <<>>)
             \o SecondLoop(p1, p2, i + 1)

\* compare_products, on the two snapshots read
compare_products(p1, p2) == FirstLoop(p1, p2, 1) \o SecondLoop(p1, p2, 1)

(***************************************************************************)
(* The remote API, as the scripts see it.                                  *)
(***************************************************************************)
\* an absent identifier (Python's None where an id is expected)
NoId == -1

\* Python truthiness of an identifier: None and 0 are falsy
TruthyId(i) == i # NoId /\ i # 0

\* str(product_id), also the f-string formatting of the id into the URL
StrOf(i) ==
    CASE i = 7 -> <<"7">>
      [] i = 8 -> <<"8">>
      [] i = 0 -> <<"0">>
      [] OTHER -> <<"N", "o", "n", "e">>

\* a response: kind "exception" is a transport failure (requests raises);
\* otherwise status is the HTTP status, json tells whether the body parses,
\* code is the application code of the body, items the search results and
\* id the identifier in 'result'
Resp(kind, status, json, code, items, id) ==
    [kind |-> kind, status |-> status, json |-> json, code |-> code,
     items |-> items, id |-> id]

\* no call in flight
NoResp == Resp("none", 0, FALSE, 0, <<>>, NoId)

\* the items a search may return: a name equal to the searched one up to
\* whitespace or another name, with an identifier or without
Items ==
    { [id |-> 7, name |-> <<"X">>], [id |-> 8, name |-> <<"W", " ">>],
      [id |-> 7, name |-> <<"W", " ">>], [id |-> NoId, name |-> <<"W", " ">>] }

\* sequences of at most n elements of S
RECURSIVE SeqUpTo(_, _)
SeqUpTo(S, n) ==
    IF n = 0 THEN {<<>>}
    ELSE LET shorter == SeqUpTo(S, n - 1)
         IN  shorter \cup {Append(q, x) : q \in {r \in shorter : Len(r) = n - 1}, x \in S}

\* the responses of the search call
SearchResponses ==
    { Resp("exception", 0, FALSE, 0, <<>>, NoId),
      Resp("http", 500, FALSE, 0, <<>>, NoId),
      Resp("http", 200, FALSE, 0, <<>>, NoId),
      Resp("http", 200, TRUE, 400, <<>>, NoId) }
    \cup { Resp("http", 200, TRUE, 200, its, NoId) : its \in SeqUpTo(Items, MaxItems) }

\* the responses of the update call of compare_csv.py
UpdateResponses ==
    { Resp("exception", 0, FALSE, 0, <<>>, NoId),
      Resp("http", 500, FALSE, 0, <<>>, NoId),
      Resp("http", 200, FALSE, 0, <<>>, NoId),
      Resp("http", 200, TRUE, 400, <<>>, NoId),
      Resp("http", 200, TRUE, 200, <<>>, NoId) }

\* the responses of the create call of add.py
CreateResponses ==
    { Resp("exception", 0, FALSE, 0, <<>>, NoId),
      Resp("http", 200, FALSE, 0, <<>>, NoId),
      Resp("http", 200, TRUE, 400, <<>>, 7),
      Resp("http", 200, TRUE, 201, <<>>, NoId),
      Resp("http", 200, TRUE, 201, <<>>, 0),
      Resp("http", 200, TRUE, 201, <<>>, 7),
      Resp("http", 200, TRUE, 201, <<>>, 8) }

\* the responses of the update call of add.py: only logged, never acted upon
PutResponses ==
    { Resp("exception", 0, FALSE, 0, <<>>, NoId),
      Resp("http", 500, FALSE, 0, <<>>, NoId),
      Resp("http", 200, TRUE, 200, <<>>, NoId) }

\* one record of the history of calls and sleeps: the operation, the entry
\* (index into differences) or row (index into the sheet) it is issued for,
\* the identifier in the URL of a PUT and whether the PUT was answered as a
\* success (TRUE for the other operations)
Event(op, entry, id, ok) == [op |-> op, entry |-> entry, id |-> id, ok |-> ok]

(***************************************************************************)
(* search_product_api and update_product_api                               *)
(***************************************************************************)
\* ExactMatch comparing the names as they are, without strip()
RECURSIVE ExactMatchRaw(_, _, _)
ExactMatchRaw(items, product_name, i) ==
    IF i > Len(items) THEN items[1].id
    ELSE IF items[i].name = product_name THEN items[i].id
    ELSE ExactMatchRaw(items, product_name, i + 1)

\* the loop over items: the id of the first item whose stripped name equals
\* the stripped product name, else the id of the first item
RECURSIVE ExactMatch(_, _, _)
ExactMatch(items, product_name, i) ==
    IF i > Len(items) THEN items[1].id
    ELSE IF strip(items[i].name) = strip(product_name) THEN items[i].id
    ELSE ExactMatch(items, product_name, i + 1)

\* search_product_api: the identifier returned for a response
search_product_api(resp, product_name) ==
    IF resp.kind = "exception" THEN NoId
    ELSE IF resp.status = 200
         THEN IF ~resp.json THEN NoId
              ELSE IF resp.code = 200 /\ resp.items # <<>>
                   THEN IF product_name = None THEN NoId
                        ELSE ExactMatch(resp.items, product_name, 1)
                   ELSE NoId
         ELSE NoId

\* str(value): None prints as "None", text is unchanged
StrValue(v) == IF v = None THEN <<"N", "o", "n", "e">> ELSE v

\* a character other than the comma
NotComma(c) == c # ","

\* .replace(",", "")
replace_commas(s) == SelectSeq(s, NotComma)

\* the decimal digits and their values
Digits == {"0", "1", "2", "3", "4", "5", "6", "7", "8", "9"}
DigitVal(c) ==
    CASE c = "0" -> 0 [] c = "1" -> 1 [] c = "2" -> 2 [] c = "3" -> 3 [] c = "4" -> 4
      [] c = "5" -> 5 [] c = "6" -> 6 [] c = "7" -> 7 [] c = "8" -> 8 [] c = "9" -> 9

\* the value of a string of digits, after the digits already read
RECURSIVE DigitsVal(_, _)
DigitsVal(s, acc) ==
    IF s = <<>> THEN acc ELSE DigitsVal(Tail(s), 10 * acc + DigitVal(Head(s)))

\* results of a conversion: a finite number, infinity, NaN, or the exception raised
Num(n) == [kind |-> "num", val |-> n]
Infinity == [kind |-> "inf", val |-> 0]
NotANumber == [kind |-> "nan", val |-> 0]
Raised(exception) == [kind |-> exception, val |-> 0]

\* float(s), for the texts of the model: surrounding blanks are ignored, a
\* string of digits is its value, "inf" and "nan" are the two special
\* floats, anything else raises ValueError
float(s) ==
    LET t == strip(s)
    IN  IF t # <<>> /\ \A i \in 1..Len(t) : t[i] \in Digits THEN Num(DigitsVal(t, 0))
        ELSE IF t = <<"i", "n", "f">> THEN Infinity
        ELSE IF t = <<"n", "a", "n">> THEN NotANumber
        ELSE Raised("ValueError")

\* int(f) of a float: ValueError for NaN, OverflowError for infinity
int(f) ==
    CASE f.kind = "num" -> f
      [] f.kind = "nan" -> Raised("ValueError")
      [] f.kind = "inf" -> Raised("OverflowError")
      [] OTHER -> f

\* list_price: float() of the new price without commas, 0 on ValueError
list_price(changed_row) ==
    LET f == float(replace_commas(StrValue(changed_row.GiaMoi)))
    IN  IF f.kind = "ValueError" THEN Num(0) ELSE f

\* quantity: int(float()) of the new HN stock without commas, 0 on ValueError;
\* another exception leaves the inner try
quantity(changed_row) ==
    LET q == int(float(replace_commas(StrValue(changed_row.TonHNMoi))))
    IN  IF q.kind = "ValueError" THEN Num(0) ELSE q

\* no update call issued yet
NoPayload == [name |-> Empty, listPrice |-> Num(0), quantity |-> Num(0)]

\* the payload of the update call: the name, the list price (also the sale
\* price) and the quantity
Payload(changed_row) ==
    [name |-> changed_row.TenSP, listPrice |-> list_price(changed_row),
     quantity |-> quantity(changed_row)]

\* update_product_api: whether the update counts as a success
update_product_api(resp) ==
    IF resp.kind = "exception" THEN FALSE
    ELSE IF resp.status = 200
         THEN IF ~resp.json THEN FALSE ELSE resp.code = 200
         ELSE FALSE

\* the name searched for: the old name, or the new one when no old name is recorded
search_name(product) ==
    IF Truthy(product.TenSPcu) THEN product.TenSPcu ELSE product.TenSP

\* ChangedIndexes without the filter on the status
ChangedIndexesAll(diffs, i) == [j \in 1..(Len(diffs) - i + 1) |-> i + j - 1]

\* [d for d in differences if d['Trạng thái'].startswith('THAY ĐỔI')], as indexes
RECURSIVE ChangedIndexes(_, _)
ChangedIndexes(diffs, i) ==
    IF i > Len(diffs) THEN <<>>
    ELSE (IF IsChanged(diffs[i]) THEN <<i>> ELSE <<>>) \o ChangedIndexes(diffs, i + 1)

(***************************************************************************)
(* compare_csv.py: main, read_csv_to_dict, process_api_updates             *)
(***************************************************************************)
\* main, up to the comparison: the usage check, the optional arguments and the
\* existence checks of the two files
ParseArgs ==
    /\ script = "compare_csv"
    /\ pc = "main"
    /\ \/ /\ pc' = "exit"
          /\ UNCHANGED <<update_via_api, output_path>>
       \/ /\ \E u \in BOOLEAN, o \in BOOLEAN :
                /\ update_via_api' = u
                /\ output_path' = o
          /\ pc' = "open1"
    /\ UNCHANGED <<script, payload, confirmed, fieldnames, nrows, products1, products2, differences,
                   reported, exported, api_key, changed_products, idx, response,
                   product_id, success_count, failed_count, sheet, row_i, log>>

\* read_csv_to_dict: the file is opened and csv.DictReader reads its header
OpenCsv ==
    /\ pc \in {"open1", "open2"}
    /\ \E h \in Headers : fieldnames' = h
    /\ nrows' = 0
    /\ pc' = IF pc = "open1" THEN "read1" ELSE "read2"
    /\ UNCHANGED <<script, payload, confirmed, update_via_api, output_path, products1, products2,
                   differences, reported, exported, api_key, changed_products, idx,
                   response, product_id, success_count, failed_count, sheet, row_i, log>>

\* the body of the loop of read_csv_to_dict, for one row of the file
StoreRow(products, row) ==
    LET product_code == strip(GetD(row, "Ma", Empty))
    IN  IF product_code # Empty THEN DictSet(products, product_code, row) ELSE products

\* read_csv_to_dict: one iteration of the loop over the rows
ReadRow ==
    /\ pc \in {"read1", "read2"}
    /\ nrows < MaxRows
    /\ nrows' = nrows + 1
    /\ \E code \in RawCodes :
          IF pc = "read1"
          THEN /\ \E r \in Rows1(code) :
                     products1' = StoreRow(products1, Restrict(r, fieldnames))
               /\ UNCHANGED products2
          ELSE /\ \E r \in Rows2(code) :
                     products2' = StoreRow(products2, Restrict(r, fieldnames))
               /\ UNCHANGED products1
    /\ UNCHANGED <<script, payload, confirmed, pc, update_via_api, output_path, fieldnames, differences,
                   reported, exported, api_key, changed_products, idx, response,
                   product_id, success_count, failed_count, sheet, row_i, log>>

\* read_csv_to_dict: the reader is exhausted and the dict is returned
EndOfFile ==
    /\ pc \in {"read1", "read2"}
    /\ pc' = IF pc = "read1" THEN "open2" ELSE "compare"
    /\ fieldnames' = {}
    /\ nrows' = 0
    /\ UNCHANGED <<script, payload, confirmed, update_via_api, output_path, products1, products2,
                   differences, reported, exported, api_key, changed_products, idx,
                   response, product_id, success_count, failed_count, sheet, row_i, log>>

\* compare_products: the two loops over the snapshots
Compare ==
    /\ pc = "compare"
    /\ differences' = compare_products(products1, products2)
    /\ pc' = "compared"
    /\ UNCHANGED <<script, payload, confirmed, update_via_api, output_path, fieldnames, nrows, products1,
                   products2, reported, exported, api_key, changed_products, idx,
                   response, product_id, success_count, failed_count, sheet, row_i, log>>

\* main: compare_products has returned (its snapshots are gone), print_results
\* and the optional export_to_csv run, then the branch on --update-api
Report ==
    /\ pc = "compared"
    /\ products1' = EmptyDict
    /\ products2' = EmptyDict
    /\ reported' = TRUE
    /\ exported' = (output_path /\ differences # <<>>)
    /\ pc' = IF update_via_api /\ differences # <<>> THEN "prompt_key" ELSE "done"
    /\ UNCHANGED <<script, payload, confirmed, update_via_api, output_path, fieldnames, nrows, differences,
                   api_key, changed_products, idx, response, product_id,
                   success_count, failed_count, sheet, row_i, log>>

\* main: input() of the API key, stripped
PromptKey ==
    /\ pc = "prompt_key"
    /\ \E raw \in {Empty, <<" ">>, <<"k">>, <<" ", "k">>} :
          /\ api_key' = strip(raw)
          /\ pc' = IF strip(raw) # Empty THEN "prompt_confirm" ELSE "done"
    /\ UNCHANGED <<script, payload, confirmed, update_via_api, output_path, fieldnames, nrows, products1,
                   products2, differences, reported, exported, changed_products, idx,
                   response, product_id, success_count, failed_count, sheet, row_i, log>>

\* Confirms without the test of the answer
ConfirmsAny(answer) == TRUE

\* the answers that confirm the update: confirm in ['yes', 'y']
Confirms(answer) == answer \in {<<"y", "e", "s">>, <<"y">>}

\* main: input() of the confirmation, stripped and lower-cased
PromptConfirm ==
    /\ pc = "prompt_confirm"
    /\ \E raw \in {<<"y">>, <<"Y", "E", "S">>, <<" ", "y", "e", "s">>, <<"n", "o">>, Empty} :
          LET confirm == lower(strip(raw))
          IN  /\ confirmed' = (confirm = <<"y", "e", "s">> \/ confirm = <<"y">>)
              /\ pc' = IF Confirms(confirm) THEN "process" ELSE "done"
    /\ UNCHANGED <<script, payload, update_via_api, output_path, fieldnames, nrows, products1,
                   products2, differences, reported, exported, api_key,
                   changed_products, idx, response, product_id, success_count,
                   failed_count, sheet, row_i, log>>

\* process_api_updates, up to the loop: the key check, the selection of the
\* CHANGED entries and the two counters
StartUpdates ==
    /\ pc = "process"
    /\ IF api_key = Empty
       THEN /\ pc' = "done"
            /\ UNCHANGED <<changed_products, idx>>
       ELSE /\ changed_products' = ChangedIndexes(differences, 1)
            /\ idx' = 1
            /\ pc' = IF ChangedIndexes(differences, 1) = <<>> THEN "done" ELSE "search"
    /\ success_count' = 0
    /\ failed_count' = 0
    /\ UNCHANGED <<script, payload, confirmed, update_via_api, output_path, fieldnames, nrows, products1,
                   products2, differences, reported, exported, api_key, response,
                   product_id, sheet, row_i, log>>

\* the loop has a next entry, or the summary is printed
NextEntry(i) == IF i < Len(changed_products) THEN "search" ELSE "summary"

\* search_product_api: the GET is issued for the current entry and answered
Search ==
    /\ pc = "search"
    /\ \E r \in SearchResponses : response' = r
    /\ log' = Append(log, Event("GET", changed_products[idx], Empty, TRUE))
    /\ pc' = "resolve"
    /\ UNCHANGED <<script, payload, confirmed, update_via_api, output_path, fieldnames, nrows, products1,
                   products2, differences, reported, exported, api_key,
                   changed_products, idx, product_id, success_count, failed_count,
                   sheet, row_i>>

\* Resolve with a failed search ending the loop
ResolveAbort ==
    /\ pc = "resolve"
    /\ LET product == differences[changed_products[idx]]
           id == search_product_api(response, search_name(product))
       IN  /\ product_id' = id
           /\ IF ~TruthyId(id)
              THEN /\ failed_count' = failed_count + 1
                   /\ log' = Append(log, Event("sleep", changed_products[idx], Empty, TRUE))
                   /\ idx' = idx + 1
                   /\ response' = NoResp
                   /\ pc' = "summary"
              ELSE /\ pc' = "update"
                   /\ UNCHANGED <<failed_count, log, idx, response>>
    /\ UNCHANGED <<script, payload, confirmed, update_via_api, output_path, fieldnames, nrows, products1,
                   products2, differences, reported, exported, api_key,
                   changed_products, success_count, sheet, row_i>>

\* search_product_api returns; on no identifier the entry is a failure, the
\* script sleeps and continues with the next entry
Resolve ==
    /\ pc = "resolve"
    /\ LET product == differences[changed_products[idx]]
           id == search_product_api(response, search_name(product))
       IN  /\ product_id' = id
           /\ IF ~TruthyId(id)
              THEN /\ failed_count' = failed_count + 1
                   /\ log' = Append(log, Event("sleep", changed_products[idx], Empty, TRUE))
                   /\ idx' = idx + 1
                   /\ response' = NoResp
                   /\ pc' = NextEntry(idx)
              ELSE /\ pc' = "update"
                   /\ UNCHANGED <<failed_count, log, idx, response>>
    /\ UNCHANGED <<script, payload, confirmed, update_via_api, output_path, fieldnames, nrows, products1,
                   products2, differences, reported, exported, api_key,
                   changed_products, success_count, sheet, row_i>>

\* update_product_api: the payload is built; an exception that leaves the
\* conversions is caught by the outer try and the call returns False without a
\* request; otherwise the PUT is issued and answered; the entry is tallied, the
\* script sleeps and continues with the next entry
Update ==
    /\ pc = "update"
    /\ LET changed_row == differences[changed_products[idx]]
       IN  IF quantity(changed_row).kind # "num"
           THEN /\ failed_count' = failed_count + 1
                /\ UNCHANGED <<success_count, payload>>
                /\ log' = Append(log, Event("sleep", changed_products[idx], Empty, TRUE))
           ELSE /\ payload' = Payload(changed_row)
                /\ \E r \in UpdateResponses :
                      /\ IF update_product_api(r)
                         THEN /\ success_count' = success_count + 1
                              /\ UNCHANGED failed_count
                         ELSE /\ failed_count' = failed_count + 1
                              /\ UNCHANGED success_count
                      /\ log' = log \o << Event("PUT", changed_products[idx],
                                                StrOf(product_id), update_product_api(r)),
                                          Event("sleep", changed_products[idx], Empty, TRUE) >>
    /\ response' = NoResp
    /\ idx' = idx + 1
    /\ pc' = NextEntry(idx)
    /\ UNCHANGED <<script, confirmed, update_via_api, output_path, fieldnames, nrows, products1,
                   products2, differences, reported, exported, api_key,
                   changed_products, product_id, sheet, row_i>>

\* process_api_updates: the summary is printed and the script ends
Summary ==
    /\ pc = "summary"
    /\ pc' = "done"
    /\ UNCHANGED <<script, payload, confirmed, update_via_api, output_path, fieldnames, nrows, products1,
                   products2, differences, reported, exported, api_key,
                   changed_products, idx, response, product_id, success_count,
                   failed_count, sheet, row_i, log>>

(***************************************************************************)
(* add.py: the import pipeline                                             *)
(***************************************************************************)
\* the name aliases, in lookup order ('Tên SP', 'Tên sản phẩm', 'Name', 'Tên')
KEYS_NAME == <<"Ten SP", "Ten san pham", "Name", "Ten">>

\* the float NaN pandas gives for an empty cell
NaN == <<"NaN">>

\* str(value) of a cell: text is unchanged, NaN prints as 'nan'
PyStr(v) == IF v = NaN THEN <<"n", "a", "n">> ELSE v

\* val_from_aliases: the value under the first alias that is a column of the row
RECURSIVE AliasFrom(_, _, _)
AliasFrom(row, aliases, i) ==
    IF i > Len(aliases) THEN None
    ELSE IF aliases[i] \in DOMAIN row THEN row[aliases[i]]
    ELSE AliasFrom(row, aliases, i + 1)

val_from_aliases(row, aliases) == AliasFrom(row, aliases, 1)

\* str(name_val).strip() if name_val else ""
ProductName(row) ==
    LET name_val == val_from_aliases(row, KEYS_NAME)
    IN  IF Truthy(name_val) THEN strip(PyStr(name_val)) ELSE Empty

\* SkipRow comparing with "nan" without lower()
SkipRowNoLower(row) ==
    LET product_name == ProductName(row)
    IN  product_name = Empty \/ product_name = <<"n", "a", "n">>

\* the test of the 'continue' in main: the row is skipped
SkipRow(row) ==
    LET product_name == ProductName(row)
    IN  product_name = Empty \/ lower(product_name) = <<"n", "a", "n">>

\* the values a name cell may hold
NameCells == {<<"W">>, <<" ", "W", " ">>, <<" ">>, NaN, <<"N", "a", "N">>}

\* the rows of the workbook, over all sheets: without a name column, with the
\* name under the first alias or a later one, and with an empty first alias
\* next to a filled later one
SheetRows ==
    { [c \in {"Thuong Hieu"} |-> <<"A", "M", "D">>] }
    \cup { [c \in {"Ten SP"} |-> v] : v \in NameCells }
    \cup { [c \in {"Name"} |-> <<"G">>] }
    \cup { [c \in {"Ten SP", "Name"} |-> IF c = "Name" THEN <<"G">> ELSE NaN] }

\* create_simple_product without the test of a missing identifier
create_simple_product_no_id_test(resp) ==
    IF resp.kind = "exception" THEN None
    ELSE IF ~resp.json THEN None
    ELSE IF resp.code = 201 THEN StrOf(resp.id)
    ELSE None

\* create_simple_product: the identifier returned for a response, or None
create_simple_product(resp) ==
    IF resp.kind = "exception" THEN None
    ELSE IF ~resp.json THEN None
    ELSE IF resp.code = 201
         THEN IF ~TruthyId(resp.id) THEN None ELSE StrOf(resp.id)
         ELSE None

\* update_product_details: whether the update is logged as done
update_product_details(resp) ==
    IF resp.kind = "exception" THEN FALSE ELSE resp.status \in {200, 201}

\* main, up to the loop: the workbook exists, the key is entered and non-empty
\* and the workbook loads, or the script ends
LoadWorkbook ==
    /\ script = "add"
    /\ pc = "main"
    /\ \/ /\ pc' = "exit"
          /\ UNCHANGED <<api_key, sheet, row_i>>
       \/ /\ api_key' = <<"k">>
          /\ \E rows \in SeqUpTo(SheetRows, MaxSheetRows) : sheet' = rows
          /\ row_i' = 1
          /\ pc' = "row"
    /\ UNCHANGED <<script, payload, confirmed, update_via_api, output_path, fieldnames, nrows, products1,
                   products2, differences, reported, exported, changed_products, idx,
                   response, product_id, success_count, failed_count, log>>

\* main: a row is fetched; it is skipped, or its create call is issued and answered
ImportRow ==
    /\ pc = "row"
    /\ row_i <= Len(sheet)
    /\ IF SkipRow(sheet[row_i])
       THEN /\ row_i' = row_i + 1
            /\ UNCHANGED <<pc, response, log>>
       ELSE /\ \E r \in CreateResponses : response' = r
            /\ log' = Append(log, Event("POST", row_i, Empty, TRUE))
            /\ pc' = "created"
            /\ UNCHANGED row_i
    /\ UNCHANGED <<script, payload, confirmed, update_via_api, output_path, fieldnames, nrows, products1,
                   products2, differences, reported, exported, api_key,
                   changed_products, idx, product_id, success_count, failed_count,
                   sheet>>

\* Created sleeping only after an update that succeeded
CreatedSleepOnSuccess ==
    /\ pc = "created"
    /\ LET created_id == create_simple_product(response)
       IN  /\ product_id' = created_id
           /\ IF Truthy(created_id)
              THEN \E r \in PutResponses :
                      log' = log \o << Event("PUT", row_i, created_id, update_product_details(r)) >>
                                 \o (IF update_product_details(r)
                                     THEN << Event("sleep", row_i, Empty, TRUE) >>
                                     ELSE << >>)
              ELSE UNCHANGED log
    /\ response' = NoResp
    /\ row_i' = row_i + 1
    /\ pc' = "row"
    /\ UNCHANGED <<script, payload, confirmed, update_via_api, output_path, fieldnames, nrows, products1,
                   products2, differences, reported, exported, api_key,
                   changed_products, idx, success_count, failed_count, sheet>>

\* main: create_simple_product returns; with an identifier the update call is
\* issued and the script sleeps, then the next row
Created ==
    /\ pc = "created"
    /\ LET created_id == create_simple_product(response)
       IN  /\ product_id' = created_id
           /\ IF Truthy(created_id)
              THEN \E r \in PutResponses :
                      log' = log \o << Event("PUT", row_i, created_id, update_product_details(r)),
                                       Event("sleep", row_i, Empty, TRUE) >>
              ELSE UNCHANGED log
    /\ response' = NoResp
    /\ row_i' = row_i + 1
    /\ pc' = "row"
    /\ UNCHANGED <<script, payload, confirmed, update_via_api, output_path, fieldnames, nrows, products1,
                   products2, differences, reported, exported, api_key,
                   changed_products, idx, success_count, failed_count, sheet>>

\* main: the rows are exhausted
ImportDone ==
    /\ pc = "row"
    /\ row_i > Len(sheet)
    /\ pc' = "done"
    /\ UNCHANGED <<script, payload, confirmed, update_via_api, output_path, fieldnames, nrows, products1,
                   products2, differences, reported, exported, api_key,
                   changed_products, idx, response, product_id, success_count,
                   failed_count, sheet, row_i, log>>

(***************************************************************************)
(* The specification.                                                      *)
(***************************************************************************)
Init ==
    /\ script \in {"compare_csv", "add"}
    /\ pc = "main"
    /\ update_via_api = FALSE
    /\ output_path = FALSE
    /\ fieldnames = {}
    /\ nrows = 0
    /\ products1 = EmptyDict
    /\ products2 = EmptyDict
    /\ differences = <<>>
    /\ reported = FALSE
    /\ exported = FALSE
    /\ api_key = Empty
    /\ changed_products = <<>>
    /\ idx = 0
    /\ response = NoResp
    /\ product_id = NoId
    /\ success_count = 0
    /\ failed_count = 0
    /\ sheet = <<>>
    /\ row_i = 0
    /\ payload = NoPayload
    /\ confirmed = FALSE
    /\ log = <<>>

Next ==
    \/ ParseArgs
    \/ OpenCsv
    \/ ReadRow
    \/ EndOfFile
    \/ Compare
    \/ Report
    \/ PromptKey
    \/ PromptConfirm
    \/ StartUpdates
    \/ Search
    \/ Resolve
    \/ Update
    \/ Summary
    \/ LoadWorkbook
    \/ ImportRow
    \/ Created
    \/ ImportDone

Spec == Init /\ [][Next]_vars

(***************************************************************************)
(* Properties of compare_products.  They are stated where compare_products *)
(* has returned and its two snapshots are still at hand (pc = "compared"). *)
(***************************************************************************)
\* the codes of the baseline and of the current snapshot
CodesA == KeySet(products1)
CodesB == KeySet(products2)

\* the positions of the entries emitted for a code
EntriesFor(code) == {i \in 1..Len(differences) : differences[i].Ma = code}

\* the three classifications of an entry, read off its status
StatusNew(d) == d.TrangThai = <<"MOI">>
StatusRemoved(d) == d.TrangThai = <<"DA XOA">>
StatusChanged(d) == Len(d.TrangThai) >= 1 /\ d.TrangThai[1] = "THAY DOI"

\* the four buckets of a code
BucketNew(code) ==
    code \in CodesB \ CodesA /\ \E i \in EntriesFor(code) : StatusNew(differences[i])
BucketRemoved(code) ==
    code \in CodesA \ CodesB /\ \E i \in EntriesFor(code) : StatusRemoved(differences[i])
BucketChanged(code) ==
    code \in CodesA \cap CodesB /\ \E i \in EntriesFor(code) : StatusChanged(differences[i])
BucketUnchanged(code) ==
    code \in CodesA \cap CodesB /\ EntriesFor(code) = {}

\* C1: compare_products emits at most one entry per code, no entry for a code
\* outside A \cup B, and every code of A \cup B is in exactly one of the
\* buckets NEW (only in B), REMOVED (only in A), CHANGED (in both) and
\* UNCHANGED (in both, no entry).
C1_Partition ==
    pc = "compared" =>
        /\ \A i \in 1..Len(differences) : differences[i].Ma \in CodesA \cup CodesB
        /\ \A code \in CodesA \cup CodesB :
              /\ Cardinality(EntriesFor(code)) <= 1
              /\ Cardinality({b \in {"new", "removed", "changed", "unchanged"} :
                     \/ b = "new" /\ BucketNew(code)
                     \/ b = "removed" /\ BucketRemoved(code)
                     \/ b = "changed" /\ BucketChanged(code)
                     \/ b = "unchanged" /\ BucketUnchanged(code)}) = 1

\* a comparison with a CHANGED and a REMOVED code
C1_Witness ==
    /\ pc = "compared"
    /\ \E a \in CodesA \cup CodesB : BucketChanged(a)
    /\ \E b \in CodesA \cup CodesB : BucketRemoved(b)

\* the four designated fields and their labels in the status
Designated == {"Ten SP", "Gia ban", "Ton HN", "Ton SG"}
Label(f) ==
    CASE f = "Ten SP" -> "Ten SP"
      [] f = "Gia ban" -> "Gia"
      [] f = "Ton HN" -> "Ton HN"
      [] f = "Ton SG" -> "Ton SG"

\* the designated fields in which two records differ
Differing(r1, r2) ==
    {f \in Designated :
        (f \in DOMAIN r1 /\ f \in DOMAIN r2 /\ r1[f] # r2[f])
        \/ (f \in DOMAIN r1 /\ f \notin DOMAIN r2 /\ r1[f] # None)
        \/ (f \notin DOMAIN r1 /\ f \in DOMAIN r2 /\ r2[f] # None)}

\* the labels listed by a CHANGED status
Listed(d) == {d.TrangThai[j] : j \in 2..Len(d.TrangThai)}

\* C2: for a code in both snapshots a CHANGED entry is emitted iff at least
\* one of the four designated fields differs between the two records, and its
\* status lists exactly the labels of the differing fields (each once); a
\* difference in another column alone gives no entry.
C2_ChangedIff ==
    pc = "compared" =>
        \A code \in CodesA \cap CodesB :
            LET diff == Differing(Lookup(products1, code), Lookup(products2, code))
            IN  /\ (\E i \in EntriesFor(code) : StatusChanged(differences[i])) <=> diff # {}
                /\ \A i \in EntriesFor(code) :
                      /\ Listed(differences[i]) = {Label(f) : f \in diff}
                      /\ Len(differences[i].TrangThai) = 1 + Cardinality(diff)

\* a code whose stock in SG and name changed, and a code that differs only in
\* the non-designated column
C2_Witness ==
    /\ pc = "compared"
    /\ \E i \in 1..Len(differences) :
          differences[i].TrangThai = <<"THAY DOI", "Ton SG", "Ten SP">>
    /\ \E code \in CodesA \cap CodesB :
          /\ EntriesFor(code) = {}
          /\ Lookup(products1, code)["Thuong Hieu"] # Lookup(products2, code)["Thuong Hieu"]

\* C3: a snapshot diffed against itself gives no entry.
C3_Reflexive ==
    (pc = "compared" /\ products1 = products2) => differences = <<>>

\* two equal snapshots of two codes, read from files without the price column
C3_Witness ==
    /\ pc = "compared"
    /\ products1 = products2
    /\ Len(products1.keys) = 2
    /\ "Gia ban" \notin DOMAIN products1.val[1]

\* C10: a designated field that is missing in one record and present but
\* empty in the other is treated as equal: no entry for that code lists the
\* field's label as changed.
C10_MissingEqualsEmpty ==
    pc = "compared" =>
        \A code \in CodesA \cap CodesB : \A f \in Designated :
            LET v1 == Get(Lookup(products1, code), f)
                v2 == Get(Lookup(products2, code), f)
            IN  ((v1 = None /\ v2 = Empty) \/ (v1 = Empty /\ v2 = None))
                => \A i \in EntriesFor(code) : Label(f) \notin Listed(differences[i])

(***************************************************************************)
(* Properties of process_api_updates (the sync pipeline).                  *)
(***************************************************************************)
\* the positions of the log with a given operation
LogOps(op) == {i \in 1..Len(log) : log[i].op = op}

\* the positions of the log with a given operation for a given entry or row
LogOpsFor(op, e) == {i \in 1..Len(log) : log[i].op = op /\ log[i].entry = e}

\* the entries of differences classified CHANGED
ChangedSet == {i \in 1..Len(differences) : StatusChanged(differences[i])}

\* C4: a search or an update is issued only for a CHANGED entry, never for a
\* NEW or REMOVED one, and when the loop has ended the number of entries
\* attempted is the number of CHANGED entries.
C4_OnlyChanged ==
    script = "compare_csv" =>
        /\ \A i \in LogOps("GET") \cup LogOps("PUT") : log[i].entry \in ChangedSet
        /\ pc = "summary" =>
              /\ Len(changed_products) = Cardinality(ChangedSet)
              /\ Cardinality(LogOps("GET")) = Cardinality(ChangedSet)

\* a finished run over a CHANGED entry that was updated, with a NEW or
\* REMOVED entry in the list
C4_Witness ==
    /\ script = "compare_csv"
    /\ pc = "summary"
    /\ LogOps("PUT") # {}
    /\ \E i \in 1..Len(differences) :
          StatusNew(differences[i]) \/ StatusRemoved(differences[i])

\* C7: no failure ends the batch: the CHANGED entries are searched in list
\* order, each once, each is counted once as a success or a failure, and at
\* the end success_count + failed_count is the number of CHANGED entries.
C7_Tally ==
    script = "compare_csv" =>
        /\ pc \in {"search", "resolve", "update"} =>
              success_count + failed_count = idx - 1
        /\ pc = "summary" =>
              /\ success_count + failed_count = Cardinality(ChangedSet)
              /\ success_count = Cardinality({i \in LogOps("PUT") : log[i].ok})
              /\ \A e \in ChangedSet : Cardinality(LogOpsFor("GET", e)) = 1
              /\ \A i \in LogOps("GET") : \A j \in LogOps("GET") :
                    i < j => log[i].entry < log[j].entry

\* a finished run of two CHANGED entries: the search of the first failed, the
\* second was updated
C7_Witness ==
    /\ script = "compare_csv"
    /\ pc = "summary"
    /\ Cardinality(ChangedSet) = 2
    /\ Len(log) >= 2 /\ log[2].op = "sleep"
    /\ success_count = 1
    /\ failed_count = 1

\* the response answers the search as a success with results
SearchSuccess(resp) ==
    resp.kind = "http" /\ resp.status = 200 /\ resp.json /\ resp.code = 200
    /\ Len(resp.items) >= 1

\* the results whose trimmed name is the trimmed searched name
Matches(resp, name) ==
    {i \in 1..Len(resp.items) : strip(resp.items[i].name) = strip(name)}

\* the identifier the claim prescribes for a response
ExpectedId(resp, name) ==
    IF ~SearchSuccess(resp) THEN NoId
    ELSE IF Matches(resp, name) # {}
         THEN resp.items[CHOOSE i \in Matches(resp, name) :
                            \A j \in Matches(resp, name) : i <= j].id
         ELSE resp.items[1].id

\* the name searched for the current entry
CurrentName ==
    LET d == differences[changed_products[idx]]
    IN  IF d.TenSPcu # Empty /\ d.TenSPcu # None THEN d.TenSPcu ELSE d.TenSP

\* C9: the search resolves to the id of the first result whose trimmed name
\* equals the trimmed searched name, else to the id of the first result; with
\* no result or no success (or no id) the entry is one failure, it is not
\* searched again and no update is issued for it.
C9_Resolution ==
    [][ (script = "compare_csv" /\ pc = "resolve") =>
            LET id == ExpectedId(response, CurrentName)
            IN  /\ product_id' = id
                /\ IF id = NoId \/ id = 0
                   THEN /\ failed_count' = failed_count + 1
                        /\ success_count' = success_count
                        /\ idx' = idx + 1
                        /\ pc' \in {"search", "summary"}
                        /\ log' = Append(log, Event("sleep", changed_products[idx], Empty, TRUE))
                   ELSE /\ pc' = "update"
                        /\ log' = log
                        /\ failed_count' = failed_count ]_vars

\* the second result matches up to whitespace, the first does not, and the
\* identifier of the second is the one to update
C9_Witness ==
    /\ script = "compare_csv"
    /\ pc = "update"
    /\ Len(response.items) = 2
    /\ Matches(response, CurrentName) = {2}
    /\ response.items[1].id # response.items[2].id
    /\ product_id = response.items[2].id

(***************************************************************************)
(* Properties of the import pipeline (add.py).                             *)
(***************************************************************************)
\* the create call was answered with application code 201 and an identifier
CreateSuccess(resp) ==
    resp.kind = "http" /\ resp.json /\ resp.code = 201 /\ resp.id \notin {NoId, 0}

\* C5: the update call of a row is issued only after the create call of that
\* row returned code 201 with an identifier, and with that identifier; after
\* any other answer no update is issued and the next row is fetched.
C5_UpdateAfterCreate ==
    /\ [](script = "add" =>
            \A i \in LogOps("PUT") :
                i > 1 /\ log[i - 1].op = "POST" /\ log[i - 1].entry = log[i].entry)
    /\ [][ (script = "add" /\ pc = "created") =>
              /\ row_i' = row_i + 1
              /\ pc' = "row"
              /\ IF CreateSuccess(response)
                 THEN \E ok \in BOOLEAN :
                         log' = log \o << Event("PUT", row_i, StrOf(response.id), ok),
                                          Event("sleep", row_i, Empty, TRUE) >>
                 ELSE log' = log ]_vars

\* the create call of row 1 failed and no update followed; row 2 was created
\* with identifier 8 and updated with it
C5_Witness ==
    /\ script = "add"
    /\ Len(log) >= 3
    /\ log[1].op = "POST" /\ log[1].entry = 1
    /\ log[2].op = "POST" /\ log[2].entry = 2
    /\ log[3].op = "PUT" /\ log[3].entry = 2 /\ log[3].id = <<"8">>

\* the name of a row: the cell under the first alias that is a column
NameCell(row) ==
    LET present == {i \in 1..Len(KEYS_NAME) : KEYS_NAME[i] \in DOMAIN row}
    IN  IF present = {} THEN None
        ELSE row[KEYS_NAME[CHOOSE i \in present : \A j \in present : i <= j]]

\* the name of the row is absent, empty once stripped, or 'nan' in any case
Blank(row) ==
    LET v == NameCell(row)
    IN  \/ v = None
        \/ strip(PyStr(v)) = Empty
        \/ lower(strip(PyStr(v))) = <<"n", "a", "n">>

\* C6: a row whose name is absent, empty or 'nan' (in any case) gets no call
\* at all, and the rows after it are still processed: at the end every other
\* row has had its create call.
C6_SkipBlank ==
    script = "add" =>
        /\ \A r \in 1..Len(sheet) :
              Blank(sheet[r]) => \A i \in 1..Len(log) : log[i].entry # r
        /\ pc = "done" =>
              \A r \in 1..Len(sheet) : ~Blank(sheet[r]) => LogOpsFor("POST", r) # {}

\* the first row is named 'NaN' and skipped, the second is created
C6_Witness ==
    /\ script = "add"
    /\ pc = "done"
    /\ Len(sheet) = 2
    /\ NameCell(sheet[1]) = <<"N", "a", "N">>
    /\ log # <<>>
    /\ \A i \in 1..Len(log) : log[i].entry = 2

(***************************************************************************)
(* The sleeps of both pipelines.                                           *)
(***************************************************************************)
\* the script is between two units of work (or past the last one)
BetweenUnits ==
    \/ script = "compare_csv" /\ pc \in {"search", "summary", "done"}
    \/ script = "add" /\ pc \in {"row", "done"}

\* the unit of work begun at position i of the log ends with exactly one
\* sleep, before the next unit begins
OneSleepAfter(i) ==
    \E j \in (i + 1)..Len(log) :
        /\ log[j].op = "sleep"
        /\ log[j].entry = log[i].entry
        /\ \A k \in (i + 1)..(j - 1) : log[k].op = "PUT" /\ log[k].entry = log[i].entry
        /\ Cardinality(LogOpsFor("sleep", log[i].entry)) = 1

\* the sync pipeline: one sleep ends the work on every CHANGED entry searched
SyncSleeps ==
    (script = "compare_csv" /\ BetweenUnits) =>
        \A i \in LogOps("GET") : OneSleepAfter(i)

\* C8 as stated: one sleep follows every row for which a call was issued,
\* whether its create or update succeeded or failed, and every CHANGED entry.
C8_SleepEveryUnit ==
    /\ SyncSleeps
    /\ (script = "add" /\ BetweenUnits) =>
          \A i \in LogOps("POST") : OneSleepAfter(i)

\* C8 amended: in the import pipeline one sleep follows every row whose create
\* call succeeded, after its update call and whether that update succeeded or
\* failed, and no sleep follows a row whose create call failed; in the sync
\* pipeline one sleep follows the work on every CHANGED entry.
C8_SleepAfterUpdate ==
    /\ SyncSleeps
    /\ (script = "add" /\ BetweenUnits) =>
          \A i \in LogOps("POST") :
              IF i < Len(log) /\ log[i + 1].op = "PUT"
              THEN OneSleepAfter(i)
              ELSE LogOpsFor("sleep", log[i].entry) = {}

\* the create call of row 1 failed and no sleep followed; the update of row 2
\* failed and a sleep followed
C8_Witness ==
    /\ script = "add"
    /\ pc = "done"
    /\ Len(log) = 4
    /\ log[1].op = "POST" /\ log[1].entry = 1
    /\ log[2].op = "POST" /\ log[2].entry = 2
    /\ log[3].op = "PUT" /\ ~log[3].ok
    /\ log[4].op = "sleep" /\ log[4].entry = 2

(***************************************************************************)
(* Properties of update_product_api.                                       *)
(***************************************************************************)
\* the value, once its commas are removed, is a number: a non-empty string
\* of digits
IsNumber(v) ==
    /\ v # None
    /\ \E i \in 1..Len(v) : v[i] # ","
    /\ \A i \in 1..Len(v) : v[i] \in Digits \cup {","}

\* the update call of the current entry is issued in this step
PutIssued ==
    /\ Len(log') = Len(log) + 2
    /\ log'[Len(log) + 1].op = "PUT"
    /\ log'[Len(log) + 1].entry = changed_products[idx]

\* C11: a new price or a new HN quantity that is no number (after removing
\* commas) never fails the entry: the update call is still issued, with
\* price zero or quantity zero in place of the value.
C11_ZeroOnUnparsable ==
    [][ (script = "compare_csv" /\ pc = "update") =>
            LET d == differences[changed_products[idx]]
            IN  /\ ~IsNumber(d.GiaMoi) =>
                      PutIssued /\ payload'.listPrice = [kind |-> "num", val |-> 0]
                /\ ~IsNumber(d.TonHNMoi) =>
                      PutIssued /\ payload'.quantity = [kind |-> "num", val |-> 0] ]_vars

(***************************************************************************)
(* Properties of compare_csv.main.                                         *)
(***************************************************************************)
\* the flag was given and the diff is not empty
FlagAndDiff == update_via_api /\ differences # <<>>

\* the report was printed and, when an output file was named, written
ReportDone == reported /\ (output_path => exported)

\* C12: a remote call is issued only if --update-api was given, the diff is
\* not empty, a non-empty key was entered and the confirmation was 'yes' or
\* 'y', tested in this order (the key is asked only under the first two, the
\* confirmation only with a key), and only after the report and the optional
\* export; in every other case the run ends without a remote call.
C12_Gated ==
    script = "compare_csv" =>
        /\ pc = "prompt_key" => FlagAndDiff /\ ReportDone
        /\ pc = "prompt_confirm" => FlagAndDiff /\ ReportDone /\ api_key # Empty
        /\ confirmed => FlagAndDiff /\ ReportDone /\ api_key # Empty
        /\ pc \in {"process", "search", "resolve", "update", "summary"} => confirmed
        /\ log # <<>> => confirmed
        /\ (pc = "done" /\ ~(FlagAndDiff /\ api_key # Empty /\ confirmed)) => log = <<>>

\* a run with the flag and an output file that was confirmed and has issued
\* an update call
C12_Witness ==
    /\ script = "compare_csv"
    /\ update_via_api
    /\ output_path /\ exported
    /\ confirmed
    /\ \E i \in 1..Len(log) : log[i].op = "PUT"

====
